---- MODULE Spec2Model ----
(***************************************************************************)
(* The "lazy pirate" retry loop of py-vpoller's C front-ends: the three    *)
(* command-line clients and the two Zabbix loadable modules.  One run of   *)
(* main() / zbx_module_vpoller() is modelled statement group by statement  *)
(* group; the ZeroMQ library and malloc are the environment, and every     *)
(* result they can return is a nondeterministic choice.                    *)
(***************************************************************************)
EXTENDS Integers, Sequences, FiniteSets, TLC

(* ------------------------------ bounds --------------------------------- *)

\* largest retry budget explored (-r option / vPollerRetries)
MaxRetries == 3

\* longest reply, in bytes, the remote side produces
MaxReplyLen == 2

\* how many runs of zbx_module_vpoller follow one another (SeqSpec)
MaxRuns == 2

\* the recorded history of library calls stops growing at this length
MaxOps == 4 * MaxRetries + 8

\* the send counter stops counting here (only a run whose receive call
\* keeps failing gets this far)
CountCap == MaxRetries + 3

(* --------------------------- the front-ends ---------------------------- *)

ExtraCclient == "extra/vpoller-cclient"
ExtraZabbix  == "extra/zabbix"
SrcCclient   == "src/vpoller-cclient"
SrcVmCclient == "src/vmpoller-cclient"
SrcZabbix    == "src/zabbix"

FrontEnds == {ExtraCclient, ExtraZabbix, SrcCclient, SrcVmCclient, SrcZabbix}

\* the front-ends under extra/ keep a got_reply flag; the older ones under
\* src/ test the result pointer instead
IsExtra(f) == f \in {ExtraCclient, ExtraZabbix}

\* the agent modules use the module-wide context made by zbx_module_init;
\* the command-line clients create and destroy their own
IsModule(f) == f \in {ExtraZabbix, SrcZabbix}

\* retry budgets a front-end can start a run with: the modules' configuration
\* parser only accepts 1..100, the clients take whatever atol() returns for
\* the -r option, zero and negative numbers included
Budgets(f) == IF IsModule(f) THEN 1..MaxRetries ELSE (-1)..MaxRetries

(* ------------------------------ replies -------------------------------- *)

\* a reply byte is NUL (0) or some other byte (1)
Bytes == {0, 1}

RECURSIVE SeqsUpTo(_)
SeqsUpTo(n) ==
    IF n = 0 THEN {<<>>}
    ELSE LET shorter == SeqsUpTo(n - 1)
         IN  shorter \cup {Append(s, b) : s \in {t \in shorter : Len(t) = n - 1}, b \in Bytes}

Replies == SeqsUpTo(MaxReplyLen)

\* what follows the message in memory when a reader runs off its end
Garbage == {<<>>, <<1>>}

\* the bytes a C string reader (printf %s, strdup) takes from d: those before
\* the first NUL
RECURSIVE CStr(_)
CStr(d) ==
    IF d = <<>> \/ Head(d) = 0 THEN <<>>
    ELSE <<Head(d)>> \o CStr(Tail(d))

HasNul(d) == \E i \in 1..Len(d) : d[i] = 0

(* ------------------------------ requests ------------------------------- *)

\* the task messages the option / key parameters can be formatted into
Tasks == {"task_a", "task_b"}

(* ------------------------------- state --------------------------------- *)

VARIABLES
    fe,         \* which front-end runs
    N,          \* the configured retry budget
    pc,         \* position of the run in the function
    retries,    \* remaining budget (the local variable retries)
    zcontext,   \* "null", "live" or "destroyed"
    zsocket,    \* current session: index into socks, 0 for NULL
    socks,      \* every session created so far: [open, connected, linger]
    msg_in,     \* the incoming message: [state, from, data]
    msg_len,    \* return value of the last successful zmq_msg_recv
    got_reply,  \* extra/ front-ends: the got_reply flag
    result,     \* src/ front-ends: "NULL", "heap" (malloc'ed) or "msg" (zmq_msg_data)
    rc,         \* process exit status / module return code
    outcome,    \* "none", "Delivered", "Exhausted" or "Fatal"
    cause,      \* for Fatal: "socket" or "malloc"
    delivered,  \* what was handed to the reply consumer: [from, bytes]
    reports,    \* how many times a result was written for the caller
    built,      \* the request as snprintf built it, before the first socket
    msg_buf,    \* the request buffer every zmq_send reads
    sent,       \* the set of payloads zmq_send has transmitted so far
    sends,      \* number of zmq_send calls
    timeouts,   \* number of polls that timed out
    ops,        \* history of library calls on sessions, in program order
    init_rc,    \* modules: what zbx_module_init returned ("none" before it ran)
    accesses,   \* reads and writes of reply memory: [kind, buf, pos, state]
    request,    \* what the run was called with: [nparam, opts, cmd]
    config,     \* modules: CONFIG_VPOLLER_TIMEOUT and CONFIG_VPOLLER_PROXY
    cfg0,       \* the configuration as it was loaded (never written)
    earlier,    \* the runs before this one: how many, and was one Exhausted
    \* two concurrent invocations of zbx_module_vpoller in one agent process
    \* (ConcSpec); each of these maps an invocation to its local variable
    cpc,        \* position of each invocation
    cretries,   \* its local retries
    czsocket,   \* its local zsocket: <<creator, number>>, NoSock for NULL
    cgot,       \* its got_reply flag / vpoller_result # NULL
    ccreated,   \* how many sockets it has created
    ctimeouts,  \* how many of its polls timed out
    coutcome,   \* its outcome
    csocks,     \* the open sockets of the shared context
    ccalls      \* the calls made on sockets: [run, op, s]

\* the variables of the two concurrent invocations
cvars == <<cpc, cretries, czsocket, cgot, ccreated, ctimeouts, coutcome,
           csocks, ccalls>>

\* the variables of the single run
runvars == <<fe, N, pc, retries, zcontext, zsocket, socks, msg_in, msg_len,
             got_reply, result, rc, outcome, cause, delivered, reports, built,
             msg_buf, sent, sends, timeouts, ops, init_rc, accesses,
             request, config, cfg0, earlier>>

\* the call and the configuration, which no step of a run writes
callvars == <<request, config, cfg0, earlier>>

vars == <<runvars, cvars>>

\* the invocations of ConcSpec
Runs == {1, 2}

NoSock == <<0, 0>>

\* the concurrent invocations before any of them is made
ConcIdle ==
    /\ cpc = [r \in Runs |-> "idle"]
    /\ cretries = [r \in Runs |-> 0]
    /\ czsocket = [r \in Runs |-> NoSock]
    /\ cgot = [r \in Runs |-> FALSE]
    /\ ccreated = [r \in Runs |-> 0]
    /\ ctimeouts = [r \in Runs |-> 0]
    /\ coutcome = [r \in Runs |-> "none"]
    /\ csocks = {}
    /\ ccalls = {}

NoReply == [from |-> 0, bytes |-> <<>>]

Ev(o, s) == [op |-> o, s |-> s]

\* append events to the history, up to MaxOps
Log(evts) ==
    LET all == ops \o evts
    IN  IF Len(all) <= MaxOps THEN all ELSE SubSeq(all, 1, MaxOps)

Sat(x) == IF x < CountCap THEN x + 1 ELSE x

OpenSocks(ss) == {i \in 1..Len(ss) : ss[i].open}

Opened == Len(socks)
Closed == Cardinality({i \in 1..Len(socks) : ~socks[i].open})

\* (mutant) zmq_close forgotten: the session stays open
CloseSock_Forgotten(ss, s) == ss

\* zmq_close(s)
CloseSock(ss, s) == [ss EXCEPT ![s].open = FALSE]

\* (mutant) the loop test lets one more attempt through
LoopCond_OffByOne(r) == r >= 0

\* while (retries > 0)
LoopCond(r) == r > 0

\* (mutant) the timeout branch forgets to charge the budget
BudgetAfterTimeout_Keep(r) == r

\* retries--
BudgetAfterTimeout(r) == r - 1

\* (mutant) no break after a successful receive: the loop goes round again
AfterRecvOk_NoBreak(f) == "loop"

\* where a successful zmq_msg_recv leads: extra/ sets got_reply and breaks,
\* src/ allocates the result buffer first
AfterRecvOk(f) == IF f \in {ExtraCclient, ExtraZabbix} THEN "after" ELSE "malloc"

\* (mutant) zmq_setsockopt(ZMQ_LINGER) left out: the socket keeps the
\* library's default, an unlimited linger period
NewSock_DefaultLinger(c) == [open |-> TRUE, connected |-> c, linger |-> -1]

\* zmq_socket + zmq_connect + zmq_setsockopt(ZMQ_LINGER, 0)
NewSock(c) == [open |-> TRUE, connected |-> c, linger |-> 0]

\* zmq_ctx_destroy returns only when no socket of the context is open
CtxDestroyReturns(ss) == OpenSocks(ss) = {}

\* the configuration the module starts with when no file sets it
DefaultConfig == [timeout |-> 10000, proxy |-> "tcp://localhost:10123"]

\* configurations a file can set (vPollerTimeout within 1000..60000)
Configs == {DefaultConfig, [timeout |-> 1000, proxy |-> "tcp://proxy:10123"]}

\* no run has returned yet
NoEarlierRun == [runs |-> 0, exhausted |-> FALSE]

\* the three settings together: retries is CONFIG_VPOLLER_RETRIES
Settings(n, c) == [retries |-> n, timeout |-> c.timeout, proxy |-> c.proxy]

\* a call every front-end accepts: five key parameters for the modules, the
\* required options for the clients
DefaultRequest(f) ==
    CASE IsModule(f)      -> [nparam |-> 5, opts |-> {}, cmd |-> "none"]
      [] f = SrcVmCclient -> [nparam |-> 0, opts |-> {"c", "V", "H"},
                              cmd |-> "discover"]
      [] OTHER            -> [nparam |-> 0, opts |-> {"m", "V"}, cmd |-> "none"]

\* the most key parameters extra/zabbix takes (the enum's last member)
PARAM_NUM == 10

\* the one number of key parameters src/zabbix takes
SrcNParam == 5

\* the fewest key parameters extra/zabbix takes
MinNParam == 4

\* numbers of key parameters the agent may pass
NParams == {MinNParam - 1, MinNParam, SrcNParam, PARAM_NUM, PARAM_NUM + 1}

\* option letters a client may be started with; "?" is a letter getopt does
\* not know
OptLetters(f) ==
    IF f = SrcVmCclient
    THEN {"c", "V", "H", "D", "n", "p", "u", "?"}
    ELSE {"m", "V", "?"}

\* arguments of -c (vmpoller-cclient)
CmdValues(f) == IF f = SrcVmCclient THEN {"poll", "discover", "other"} ELSE {"none"}

\* the calls a front-end can get
Requests(f) ==
    IF IsModule(f)
    THEN {[nparam |-> n, opts |-> {}, cmd |-> "none"] : n \in NParams}
    ELSE {[nparam |-> 0, opts |-> o, cmd |-> c] :
              o \in SUBSET OptLetters(f), c \in CmdValues(f)}

\* the parameter checks that precede everything else:
\*   extra/zabbix: nparam within 4..PARAM_NUM;  src/zabbix: nparam = 5
\*   vpoller-cclient: no unknown option, -m and -V given
\*   vmpoller-cclient: no unknown option; -c, -V and an object type (-H or
\*     -D) given; -c is poll or discover; a poll of hosts has -n and -p,
\*     else a poll of datastores has -n, -u and -p
Accepted(f, rq) ==
    CASE f = ExtraZabbix  -> rq.nparam >= MinNParam /\ rq.nparam <= PARAM_NUM
      [] f = SrcZabbix    -> rq.nparam = SrcNParam
      [] f = SrcVmCclient -> /\ "?" \notin rq.opts
                             /\ {"c", "V"} \subseteq rq.opts
                             /\ "H" \in rq.opts \/ "D" \in rq.opts
                             /\ rq.cmd \in {"poll", "discover"}
                             /\ rq.cmd = "poll" =>
                                  IF "H" \in rq.opts
                                     /\ ~({"n", "p"} \subseteq rq.opts)
                                  THEN FALSE
                                  ELSE ~("D" \in rq.opts
                                         /\ ~({"n", "u", "p"} \subseteq rq.opts))
      [] OTHER            -> "?" \notin rq.opts /\ {"m", "V"} \subseteq rq.opts

\* what a rejected call returns
RejectRc(f) == IF IsModule(f) THEN "SYSINFO_RET_FAIL" ELSE "EX_USAGE"

\* the local variables of a run as the function is entered
RunInit ==
    /\ fe \in FrontEnds
    /\ N \in Budgets(fe)
    /\ retries = N
    /\ zsocket = 0
    /\ socks = <<>>
    /\ msg_in = [state |-> "uninit", from |-> 0, data |-> <<>>]
    /\ msg_len = 0
    /\ got_reply = FALSE
    /\ result = "NULL"
    /\ rc = IF IsModule(fe) THEN "unset" ELSE "EX_OK"
    /\ outcome = "none"
    /\ cause = "none"
    /\ delivered = NoReply
    /\ reports = 0
    /\ built \in Tasks
    /\ msg_buf = built
    /\ sent = {}
    /\ sends = 0
    /\ timeouts = 0
    /\ ops = <<>>
    /\ accesses = {}

\* nothing has run yet: the clients are about to create context and socket,
\* the modules are about to be initialised by the agent
NotLoaded ==
    /\ pc = IF IsModule(fe) THEN "init" ELSE "socket"
    /\ zcontext = "null"
    /\ init_rc = "none"

\* a single accepted call under the default configuration
CallIdle ==
    /\ request = DefaultRequest(fe)
    /\ config = DefaultConfig
    /\ cfg0 = Settings(N, config)
    /\ earlier = NoEarlierRun

Init ==
    /\ RunInit
    /\ NotLoaded
    /\ CallIdle
    /\ ConcIdle

(* ------------------------------ actions -------------------------------- *)

\* zbx_module_init ends with return (ZBX_MODULE_OK) whatever zmq_ctx_new gave
ModuleInitRc(ctx) == "ZBX_MODULE_OK"

\* modules: zbx_module_init() sets the static zcontext = zmq_ctx_new(), which
\* is NULL when the context cannot be created; the agent loads the module,
\* and later calls zbx_module_vpoller, when ZBX_MODULE_OK was returned
ModuleInit ==
    /\ pc = "init"
    /\ \E ctx \in {"live", "null"} :
          /\ zcontext' = ctx
          /\ init_rc' = ModuleInitRc(ctx)
          /\ pc' = IF ModuleInitRc(ctx) = "ZBX_MODULE_OK" THEN "socket" ELSE "unloaded"
    /\ UNCHANGED <<callvars, cvars, accesses, fe, N, built, msg_buf, sent, retries, zsocket,
                   socks, msg_in, msg_len, got_reply, result, rc, outcome,
                   cause, delivered, reports, sends, timeouts, ops>>

\* zmq_socket() needs a context: the clients make theirs right before, the
\* modules use the one zbx_module_init left (NULL gives no socket)
CtxUsable == IsModule(fe) => zcontext = "live"

\* the failure return after a failed zmq_socket(), initial or replacement:
\* the clients print to stderr, destroy the context and return EX_PROTOCOL,
\* the modules set the result message and return SYSINFO_RET_FAIL
SocketFailed ==
    /\ zsocket' = 0
    /\ outcome' = "Fatal"
    /\ cause' = "socket"
    /\ reports' = reports + 1
    /\ rc' = IF IsModule(fe) THEN "SYSINFO_RET_FAIL" ELSE "EX_PROTOCOL"
    /\ msg_in' = IF msg_in.state = "uninit" THEN msg_in
                 ELSE [msg_in EXCEPT !.state = "closed"]
    /\ IF IsModule(fe)
       THEN /\ ops' = Log(<<Ev("open_fail", 0), Ev("report", 0)>>)
            /\ zcontext' = zcontext
            /\ pc' = "done"
       ELSE /\ ops' = Log(<<Ev("open_fail", 0), Ev("report", 0), Ev("ctx_destroy", 0)>>)
            /\ zcontext' = "destroyed"
            /\ pc' = IF CtxDestroyReturns(socks) THEN "done" ELSE "hung"
    /\ UNCHANGED socks

\* (mutant) a failed first zmq_socket is tried again instead of ending the
\* run
CreateSocket_RetriesCreation ==
    /\ pc = "socket"
    /\ \/ /\ CtxUsable
          /\ \E c \in BOOLEAN :
                /\ socks' = Append(socks, NewSock(c))
                /\ zsocket' = Len(socks) + 1
                /\ ops' = Log(<<Ev("open", Len(socks) + 1)>>)
          /\ zcontext' = "live"
          /\ msg_in' = [msg_in EXCEPT !.state = "init"]
          /\ pc' = "loop"
       \/ /\ ops' = Log(<<Ev("open_fail", 0)>>)
          /\ UNCHANGED <<socks, zsocket, zcontext, msg_in, pc>>
    /\ UNCHANGED <<callvars, cvars, accesses, init_rc, fe, N, built, msg_buf, sent,
                   retries, msg_len, got_reply,
                   result, delivered, sends, timeouts, rc, outcome, cause,
                   reports>>

\* (mutant) the return value of zmq_connect is tested and a failure ends the
\* run like a failed zmq_socket
CreateSocket_ChecksConnect ==
    /\ pc = "socket"
    /\ \/ /\ CtxUsable
          /\ socks' = Append(socks, NewSock(TRUE))
          /\ zsocket' = Len(socks) + 1
          /\ ops' = Log(<<Ev("open", Len(socks) + 1)>>)
          /\ zcontext' = "live"
          /\ msg_in' = [msg_in EXCEPT !.state = "init"]
          /\ pc' = "loop"
          /\ UNCHANGED <<rc, outcome, cause, reports>>
       \/ /\ CtxUsable
          /\ socks' = Append(socks, [NewSock(FALSE) EXCEPT !.open = FALSE])
          /\ zsocket' = Len(socks) + 1
          /\ ops' = Log(<<Ev("open", Len(socks) + 1), Ev("close", Len(socks) + 1),
                          Ev("report", 0)>>)
          /\ zcontext' = "live"
          /\ outcome' = "Fatal"
          /\ cause' = "connect"
          /\ reports' = reports + 1
          /\ rc' = IF IsModule(fe) THEN "SYSINFO_RET_FAIL" ELSE "EX_PROTOCOL"
          /\ pc' = "done"
          /\ UNCHANGED msg_in
       \/ SocketFailed
    /\ UNCHANGED <<callvars, cvars, accesses, init_rc, fe, N, built, msg_buf, sent,
                   retries, msg_len, got_reply, result, delivered,
                   sends, timeouts>>

\* zmq_ctx_new (clients), the first zmq_socket, zmq_connect, zmq_setsockopt
\* and zmq_msg_init
CreateSocket ==
    /\ pc = "socket"
    /\ \/ /\ CtxUsable
          /\ \E c \in BOOLEAN :
                /\ socks' = Append(socks, NewSock(c))
                /\ zsocket' = Len(socks) + 1
                /\ ops' = Log(<<Ev("open", Len(socks) + 1)>>)
          /\ zcontext' = "live"
          /\ msg_in' = [msg_in EXCEPT !.state = "init"]
          /\ pc' = "loop"
          /\ UNCHANGED <<rc, outcome, cause, reports>>
       \/ SocketFailed
    /\ UNCHANGED <<callvars, cvars, accesses, init_rc, fe, N, built, msg_buf, sent,
                   retries, msg_len, got_reply, result, delivered,
                   sends, timeouts>>

\* while (retries > 0)
LoopTest ==
    /\ pc = "loop"
    /\ pc' = IF LoopCond(retries) THEN "send" ELSE "after"
    /\ UNCHANGED <<callvars, cvars, accesses, init_rc, fe, N, built, msg_buf, sent,
                   retries, zcontext, zsocket, socks, msg_in, msg_len,
                   got_reply, result, rc, outcome, cause, delivered, reports,
                   sends, timeouts, ops>>

\* (mutant) the send takes the buffer over, as zmq_msg_send does with a
\* message: it is empty afterwards
Send_ConsumesBuffer ==
    /\ pc = "send"
    /\ sends' = Sat(sends)
    /\ sent' = sent \cup {msg_buf}
    /\ msg_buf' = ""
    /\ ops' = Log(<<Ev("send", zsocket)>>)
    /\ pc' = "poll"
    /\ UNCHANGED <<callvars, cvars, accesses, init_rc, fe, N, built,
                   retries, zcontext, zsocket, socks, msg_in, msg_len,
                   got_reply, result, rc, outcome, cause, delivered, reports,
                   timeouts>>

\* zmq_send(zsocket, msg_buf, ...); its return value is ignored
Send ==
    /\ pc = "send"
    /\ sends' = Sat(sends)
    /\ sent' = sent \cup {msg_buf}
    /\ ops' = Log(<<Ev("send", zsocket)>>)
    /\ pc' = "poll"
    /\ UNCHANGED <<callvars, cvars, accesses, init_rc, fe, N, built, msg_buf,
                   retries, zcontext, zsocket, socks, msg_in, msg_len,
                   got_reply, result, rc, outcome, cause, delivered, reports,
                   timeouts>>

\* (mutant) revents is not tested: zmq_msg_recv is called after every poll
AfterPoll_AlwaysRecv(readable) == "recv"

\* if (items[0].revents & ZMQ_POLLIN): the receive when the poll reported
\* the socket readable, the timeout branch otherwise
AfterPoll(readable) == IF readable THEN "recv" ELSE "close"

\* (mutant) the timeout branch writes a message for the caller before it
\* retries
Poll_Surfacing ==
    /\ pc = "poll"
    /\ \/ /\ socks[zsocket].connected
          /\ ops' = Log(<<Ev("poll_in", zsocket)>>)
          /\ pc' = "recv"
          /\ UNCHANGED <<retries, timeouts, reports>>
       \/ /\ ops' = Log(<<Ev("poll_to", zsocket), Ev("report", 0)>>)
          /\ retries' = retries - 1
          /\ timeouts' = timeouts + 1
          /\ reports' = reports + 1
          /\ pc' = "close"
    /\ UNCHANGED <<callvars, cvars, accesses, init_rc, fe, N, built, msg_buf, sent,
                   zcontext, zsocket, socks, msg_in, msg_len,
                   got_reply, result, rc, outcome, cause, delivered, sends>>

\* (mutant) the timeout branch counts down the configured number itself, as
\* if the loop ran on the static instead of a local copy
Poll_ChargesConfig ==
    /\ pc = "poll"
    /\ \/ /\ socks[zsocket].connected
          /\ ops' = Log(<<Ev("poll_in", zsocket)>>)
          /\ pc' = AfterPoll(TRUE)
          /\ UNCHANGED <<retries, timeouts, N>>
       \/ /\ ops' = Log(<<Ev("poll_to", zsocket)>>)
          /\ retries' = BudgetAfterTimeout(retries)
          /\ N' = N - 1
          /\ timeouts' = timeouts + 1
          /\ pc' = AfterPoll(FALSE)
    /\ UNCHANGED <<callvars, cvars, accesses, init_rc, fe, built, msg_buf, sent,
                   zcontext, zsocket, socks, msg_in, msg_len,
                   got_reply, result, rc, outcome, cause, delivered, reports,
                   sends>>

\* zmq_poll(items, 1, timeout) and the test of revents; the else branch
\* starts with retries--
Poll ==
    /\ pc = "poll"
    /\ \/ /\ socks[zsocket].connected
          /\ ops' = Log(<<Ev("poll_in", zsocket)>>)
          /\ pc' = AfterPoll(TRUE)
          /\ UNCHANGED <<retries, timeouts>>
       \/ /\ ops' = Log(<<Ev("poll_to", zsocket)>>)
          /\ retries' = BudgetAfterTimeout(retries)
          /\ timeouts' = timeouts + 1
          /\ pc' = AfterPoll(FALSE)
    /\ UNCHANGED <<callvars, cvars, accesses, init_rc, fe, N, built, msg_buf, sent,
                   zcontext, zsocket, socks, msg_in, msg_len,
                   got_reply, result, rc, outcome, cause, delivered, reports,
                   sends>>

\* msg_len = zmq_msg_recv(&msg_in, zsocket, 0): on success extra/ sets
\* got_reply and leaves the loop, src/ goes on to malloc; on -1 the loop
\* body ends and the loop test is next
Recv ==
    /\ pc = "recv"
    /\ \/ \E d \in Replies :
            /\ msg_in' = [state |-> "recvd", from |-> zsocket, data |-> d]
            /\ msg_len' = Len(d)
            /\ ops' = Log(<<Ev("recv_ok", zsocket)>>)
            /\ got_reply' = IF IsExtra(fe) THEN TRUE ELSE got_reply
            /\ pc' = AfterRecvOk(fe)
       \/ /\ ops' = Log(<<Ev("recv_err", zsocket)>>)
          /\ pc' = "loop"
          /\ UNCHANGED <<msg_in, msg_len, got_reply>>
    /\ UNCHANGED <<callvars, cvars, accesses, init_rc, fe, N, built, msg_buf, sent,
                   retries, zcontext, zsocket, socks, result, rc,
                   outcome, cause, delivered, reports, sends, timeouts>>

\* one access to reply memory: a "read" or "write" of buffer buf ("msg" is
\* the data of the received message, "heap" a malloc'ed block) that reaches
\* byte position pos (from 0), made while the message was in state st
Access(k, b, p, st) == [kind |-> k, buf |-> b, pos |-> p, state |-> st]

\* index (from 1) of the first NUL of d, Len(d) + 1 if it holds none
FirstNul(d) ==
    IF HasNul(d) THEN CHOOSE i \in 1..Len(d) : d[i] = 0 /\ \A j \in 1..(i - 1) : d[j] # 0
    ELSE Len(d) + 1

\* the last byte position a C string reader (printf %s, strdup) touches when
\* started on d: the terminator it stops at, which is the byte behind the
\* data when d holds no NUL
LastRead(d) == FirstNul(d) - 1

\* the state of the message when the front-end reads the reply for the
\* caller: src/zabbix calls zmq_msg_close before strdup, the others after
\* the output
MsgStateAtRead(f, st) == IF f = SrcZabbix THEN "closed" ELSE st

\* src/ only: result = malloc(msg_len + 1); on success result is overwritten
\* with zmq_msg_data(&msg_in), terminated and the loop is left; on failure
\* the clients close the message and destroy the context (the socket is
\* still open), the module closes message and socket
Malloc ==
    /\ pc = "malloc"
    /\ \/ /\ result' = "msg"
          /\ accesses' = accesses \cup {Access("write", "msg", msg_len, msg_in.state)}
          /\ pc' = "after"
          /\ UNCHANGED <<zcontext, socks, msg_in, rc, outcome, cause, reports, ops>>
       \/ /\ result' = "NULL"
          /\ accesses' = accesses
          /\ outcome' = "Fatal"
          /\ cause' = "malloc"
          /\ reports' = reports + 1
          /\ msg_in' = [msg_in EXCEPT !.state = "closed"]
          /\ IF IsModule(fe)
             THEN /\ rc' = "SYSINFO_RET_FAIL"
                  /\ socks' = CloseSock(socks, zsocket)
                  /\ ops' = Log(<<Ev("report", 0), Ev("close", zsocket)>>)
                  /\ zcontext' = zcontext
                  /\ pc' = "done"
             ELSE /\ rc' = "EX_OSERR"
                  /\ socks' = socks
                  /\ ops' = Log(<<Ev("report", 0), Ev("ctx_destroy", 0)>>)
                  /\ zcontext' = "destroyed"
                  /\ pc' = IF CtxDestroyReturns(socks) THEN "done" ELSE "hung"
    /\ UNCHANGED <<callvars, cvars, init_rc, fe, N, built, msg_buf, sent,
                   retries, zsocket, msg_len, got_reply, delivered,
                   sends, timeouts>>

\* (mutant) the timeout branch keeps the socket: no zmq_close before the
\* replacement is made
CloseRetry_Skip ==
    /\ pc = "close"
    /\ pc' = "reopen"
    /\ UNCHANGED <<callvars, cvars, accesses, init_rc, fe, N, built, msg_buf, sent,
                   retries, zcontext, zsocket, socks, msg_in, msg_len,
                   got_reply, result, rc, outcome, cause, delivered, reports,
                   sends, timeouts, ops>>

\* zmq_close(zsocket) in the timeout branch
CloseRetry ==
    /\ pc = "close"
    /\ socks' = CloseSock(socks, zsocket)
    /\ ops' = Log(<<Ev("close", zsocket)>>)
    /\ pc' = "reopen"
    /\ UNCHANGED <<callvars, cvars, accesses, init_rc, fe, N, built, msg_buf, sent,
                   retries, zcontext, zsocket, msg_in, msg_len,
                   got_reply, result, rc, outcome, cause, delivered, reports,
                   sends, timeouts>>

\* (mutant) the replacement socket is created but the handle variable keeps
\* naming the closed one
Reopen_KeepsOldHandle ==
    /\ pc = "reopen"
    /\ \/ /\ \E c \in BOOLEAN :
                /\ socks' = Append(socks, NewSock(c))
                /\ zsocket' = zsocket
                /\ ops' = Log(<<Ev("open", Len(socks) + 1)>>)
          /\ pc' = "loop"
          /\ UNCHANGED <<zcontext, msg_in, rc, outcome, cause, reports>>
       \/ SocketFailed
    /\ UNCHANGED <<callvars, cvars, accesses, init_rc, fe, N, built, msg_buf, sent,
                   retries, msg_len, got_reply, result, delivered,
                   sends, timeouts>>

\* (mutant) a failed replacement zmq_socket is tried again instead of ending
\* the run
Reopen_RetriesCreation ==
    /\ pc = "reopen"
    /\ \/ /\ \E c \in BOOLEAN :
                /\ socks' = Append(socks, NewSock(c))
                /\ zsocket' = Len(socks) + 1
                /\ ops' = Log(<<Ev("open", Len(socks) + 1)>>)
          /\ pc' = "loop"
       \/ /\ ops' = Log(<<Ev("open_fail", 0)>>)
          /\ UNCHANGED <<socks, zsocket, pc>>
    /\ UNCHANGED <<callvars, cvars, accesses, init_rc, fe, N, built, msg_buf, sent,
                   retries, msg_len, got_reply,
                   result, delivered, sends, timeouts, zcontext, msg_in, rc,
                   outcome, cause, reports>>

\* the replacement zmq_socket, zmq_connect and zmq_setsockopt of the timeout
\* branch
Reopen ==
    /\ pc = "reopen"
    /\ \/ /\ \E c \in BOOLEAN :
                /\ socks' = Append(socks, NewSock(c))
                /\ zsocket' = Len(socks) + 1
                /\ ops' = Log(<<Ev("open", Len(socks) + 1)>>)
          /\ pc' = "loop"
          /\ UNCHANGED <<zcontext, msg_in, rc, outcome, cause, reports>>
       \/ SocketFailed
    /\ UNCHANGED <<callvars, cvars, accesses, init_rc, fe, N, built, msg_buf, sent,
                   retries, msg_len, got_reply, result, delivered,
                   sends, timeouts>>

\* the bytes the front-end hands over for a received message d
\*   extra/: printf("%s") / strdup() of zmq_msg_data while the message is
\*           open: stops at the first NUL, runs past the end if there is none
\*   src/ clients: result[msg_len] = '\0' was written, then printf("%s")
\*   src/ module: strdup() after zmq_msg_close released the message
Surfaced(f, d) ==
    IF IsExtra(f)
    THEN IF HasNul(d) THEN {CStr(d)} ELSE {d \o g : g \in Garbage}
    ELSE IF f = SrcZabbix
         THEN {CStr(d)} \cup Garbage
         ELSE {CStr(d)}

\* (mutant) the test for a result is left out: the reply is always output
HasReply_Always == TRUE

\* if (got_reply == false) in extra/, if (result == NULL) in src/
HasReply == IF IsExtra(fe) THEN got_reply ELSE result # "NULL"

\* everything after the loop: the test for a result, the output, and the
\* clean-up, in each front-end's order
Finish ==
    /\ pc = "after"
    /\ reports' = reports + 1
    /\ IF HasReply
       THEN /\ outcome' = "Delivered"
            /\ \E b \in Surfaced(fe, msg_in.data) :
                  delivered' = [from |-> msg_in.from, bytes |-> b]
            /\ accesses' = accesses \cup
                  {Access("read", "msg", LastRead(msg_in.data),
                          MsgStateAtRead(fe, msg_in.state))}
            /\ rc' = IF IsModule(fe) THEN "SYSINFO_RET_OK" ELSE rc
            /\ msg_in' = [msg_in EXCEPT !.state = "closed"]
            /\ socks' = CloseSock(socks, zsocket)
            /\ IF IsModule(fe)
               THEN /\ ops' = IF fe = ExtraZabbix
                              THEN Log(<<Ev("report", 0), Ev("close", zsocket)>>)
                              ELSE Log(<<Ev("close", zsocket), Ev("report", 0)>>)
                    /\ zcontext' = zcontext
               ELSE /\ ops' = Log(<<Ev("report", 0), Ev("close", zsocket),
                                    Ev("ctx_destroy", 0)>>)
                    /\ zcontext' = "destroyed"
       ELSE /\ outcome' = "Exhausted"
            /\ delivered' = delivered
            /\ accesses' = accesses
            /\ rc' = CASE IsModule(fe)      -> "SYSINFO_RET_FAIL"
                       [] fe = SrcVmCclient -> rc
                       [] OTHER             -> "EX_UNAVAILABLE"
            /\ IF fe = SrcZabbix
               THEN /\ UNCHANGED <<msg_in, socks, zcontext>>
                    /\ ops' = Log(<<Ev("report", 0)>>)
               ELSE /\ msg_in' = [msg_in EXCEPT !.state = "closed"]
                    /\ socks' = CloseSock(socks, zsocket)
                    /\ IF IsModule(fe)
                       THEN /\ ops' = Log(<<Ev("close", zsocket), Ev("report", 0)>>)
                            /\ zcontext' = zcontext
                       ELSE /\ ops' = Log(<<Ev("report", 0), Ev("close", zsocket),
                                            Ev("ctx_destroy", 0)>>)
                            /\ zcontext' = "destroyed"
    /\ pc' = "done"
    /\ UNCHANGED <<callvars, cvars, init_rc, fe, N, built, msg_buf, sent,
                   retries, zsocket, msg_len, got_reply, result, cause,
                   sends, timeouts>>

Next ==
    \/ ModuleInit
    \/ CreateSocket
    \/ LoopTest
    \/ Send
    \/ Poll
    \/ Recv
    \/ Malloc
    \/ CloseRetry
    \/ Reopen
    \/ Finish

Spec == Init /\ [][Next]_vars

\* the process keeps executing: a step that can be taken is taken
FairSpec == Spec /\ WF_vars(Next)

(* --------- runs of zbx_module_vpoller one after another ---------------- *)

\* The agent calls the function again after it returned.  The statics
\* (zcontext and the configuration) are what the last run left; the locals
\* are initialised anew, retries from CONFIG_VPOLLER_RETRIES.

SeqInit ==
    /\ RunInit
    /\ NotLoaded
    /\ IsModule(fe)
    /\ built = "task_a"
    /\ request = DefaultRequest(fe)
    /\ config \in Configs
    /\ cfg0 = Settings(N, config)
    /\ earlier = NoEarlierRun
    /\ ConcIdle

\* the next call of zbx_module_vpoller after the previous one returned
NextRun ==
    /\ pc = "done"
    /\ IsModule(fe)
    /\ earlier.runs < MaxRuns - 1
    /\ earlier' = [runs |-> earlier.runs + 1,
                   exhausted |-> earlier.exhausted \/ outcome = "Exhausted"]
    /\ pc' = "socket"
    /\ retries' = N
    /\ zsocket' = 0
    /\ socks' = <<>>
    /\ msg_in' = [state |-> "uninit", from |-> 0, data |-> <<>>]
    /\ msg_len' = 0
    /\ got_reply' = FALSE
    /\ result' = "NULL"
    /\ rc' = "unset"
    /\ outcome' = "none"
    /\ cause' = "none"
    /\ delivered' = NoReply
    /\ reports' = 0
    /\ sent' = {}
    /\ sends' = 0
    /\ timeouts' = 0
    /\ ops' = <<>>
    /\ accesses' = {}
    /\ UNCHANGED <<cvars, fe, N, zcontext, init_rc, built, msg_buf, request,
                   config, cfg0>>

SeqNext ==
    \/ ModuleInit
    \/ CreateSocket
    \/ LoopTest
    \/ Send
    \/ Poll
    \/ Recv
    \/ Malloc
    \/ CloseRetry
    \/ Reopen
    \/ Finish
    \/ NextRun

SeqSpec == SeqInit /\ [][SeqNext]_vars

(* ------------- a call with parameters of any kind ---------------------- *)

\* The run from its very first statement: the parameters are checked before
\* the request is built and before anything of the transport is made.  The
\* modules have been initialised by the agent before they are called.

ReqInit ==
    /\ RunInit
    /\ pc = "args"
    /\ zcontext = IF IsModule(fe) THEN "live" ELSE "null"
    /\ init_rc = IF IsModule(fe) THEN "ZBX_MODULE_OK" ELSE "none"
    /\ built = "task_a"
    /\ request \in Requests(fe)
    /\ config = DefaultConfig
    /\ cfg0 = Settings(N, config)
    /\ earlier = NoEarlierRun
    /\ ConcIdle

\* (mutant) the parameters are not checked: every call goes on to the
\* transport
Validate_Unchecked ==
    /\ pc = "args"
    /\ pc' = "socket"
    /\ UNCHANGED <<callvars, cvars, accesses, init_rc, fe, N, built, msg_buf,
                   sent, retries, zcontext, zsocket, socks, msg_in, msg_len,
                   got_reply, result, cause, delivered, sends, timeouts, ops,
                   rc, reports, outcome>>

\* getopt and the sanity checks of the clients (usage(); return (EX_USAGE)),
\* the test of request->nparam in the modules (SET_MSG_RESULT; return
\* (SYSINFO_RET_FAIL))
Validate ==
    /\ pc = "args"
    /\ IF Accepted(fe, request)
       THEN /\ pc' = "socket"
            /\ UNCHANGED <<rc, reports, outcome>>
       ELSE /\ pc' = "rejected"
            /\ rc' = RejectRc(fe)
            /\ reports' = reports + 1
            /\ outcome' = "Rejected"
    /\ UNCHANGED <<callvars, cvars, accesses, init_rc, fe, N, built, msg_buf,
                   sent, retries, zcontext, zsocket, socks, msg_in, msg_len,
                   got_reply, result, cause, delivered, sends, timeouts, ops>>

ReqNext ==
    \/ Validate
    \/ CreateSocket
    \/ LoopTest
    \/ Send
    \/ Poll
    \/ Recv
    \/ Malloc
    \/ CloseRetry
    \/ Reopen
    \/ Finish

ReqSpec == ReqInit /\ [][ReqNext]_vars

(* ------- two concurrent invocations of zbx_module_vpoller -------------- *)

\* One agent process, the module loaded, two invocations running at once.
\* Shared: the static zcontext and the configuration (N is
\* CONFIG_VPOLLER_RETRIES).  Everything else is a local variable of the
\* invocation; a socket is named by who created it and as which of theirs.

Modules == {ExtraZabbix, SrcZabbix}

Call(r, o, s) == [run |-> r, op |-> o, s |-> s]

\* retries-- on the local variable of invocation r
ChargeTimeout(rt, r) == [rt EXCEPT ![r] = rt[r] - 1]

\* (mutant) zsocket is a static of the module instead of a local: a new
\* socket becomes the current one of every invocation
StoreSocket_Static(zs, r, s) == [q \in Runs |-> s]

\* zsocket = zmq_socket(...) on the local variable of invocation r
StoreSocket(zs, r, s) == [zs EXCEPT ![r] = s]

ConcInit ==
    /\ fe \in Modules
    /\ N \in Budgets(fe)
    /\ pc = "conc"
    /\ retries = N
    /\ zcontext = "live"
    /\ zsocket = 0
    /\ socks = <<>>
    /\ msg_in = [state |-> "uninit", from |-> 0, data |-> <<>>]
    /\ msg_len = 0
    /\ got_reply = FALSE
    /\ result = "NULL"
    /\ rc = "unset"
    /\ outcome = "none"
    /\ cause = "none"
    /\ delivered = NoReply
    /\ reports = 0
    /\ built = "task_a"
    /\ msg_buf = built
    /\ sent = {}
    /\ sends = 0
    /\ timeouts = 0
    /\ ops = <<>>
    /\ init_rc = "ZBX_MODULE_OK"
    /\ accesses = {}
    /\ CallIdle
    /\ cpc = [r \in Runs |-> "socket"]
    /\ cretries = [r \in Runs |-> N]
    /\ czsocket = [r \in Runs |-> NoSock]
    /\ cgot = [r \in Runs |-> FALSE]
    /\ ccreated = [r \in Runs |-> 0]
    /\ ctimeouts = [r \in Runs |-> 0]
    /\ coutcome = [r \in Runs |-> "none"]
    /\ csocks = {}
    /\ ccalls = {}

\* int retries = CONFIG_VPOLLER_RETRIES and the first zmq_socket, zmq_connect,
\* zmq_setsockopt, zmq_msg_init of invocation r
ConcCreateSocket(r) ==
    /\ cpc[r] = "socket"
    /\ \/ /\ czsocket' = StoreSocket(czsocket, r, <<r, ccreated[r] + 1>>)
          /\ ccreated' = [ccreated EXCEPT ![r] = ccreated[r] + 1]
          /\ csocks' = csocks \cup {<<r, ccreated[r] + 1>>}
          /\ cpc' = [cpc EXCEPT ![r] = "loop"]
          /\ UNCHANGED coutcome
       \/ /\ coutcome' = [coutcome EXCEPT ![r] = "Fatal"]
          /\ cpc' = [cpc EXCEPT ![r] = "done"]
          /\ UNCHANGED <<czsocket, ccreated, csocks>>
    /\ UNCHANGED <<runvars, cretries, cgot, ctimeouts, ccalls>>

\* while (retries > 0)
ConcLoopTest(r) ==
    /\ cpc[r] = "loop"
    /\ cpc' = [cpc EXCEPT ![r] = IF LoopCond(cretries[r]) THEN "send" ELSE "after"]
    /\ UNCHANGED <<runvars, cretries, czsocket, cgot, ccreated, ctimeouts,
                   coutcome, csocks, ccalls>>

\* zmq_send(zsocket, msg_buf, ...)
ConcSend(r) ==
    /\ cpc[r] = "send"
    /\ ccalls' = ccalls \cup {Call(r, "send", czsocket[r])}
    /\ cpc' = [cpc EXCEPT ![r] = "poll"]
    /\ UNCHANGED <<runvars, cretries, czsocket, cgot, ccreated, ctimeouts,
                   coutcome, csocks>>

\* zmq_poll and the test of revents; the else branch starts with retries--
ConcPoll(r) ==
    /\ cpc[r] = "poll"
    /\ ccalls' = ccalls \cup {Call(r, "poll", czsocket[r])}
    /\ \/ /\ cpc' = [cpc EXCEPT ![r] = AfterPoll(TRUE)]
          /\ UNCHANGED <<cretries, ctimeouts>>
       \/ /\ cretries' = ChargeTimeout(cretries, r)
          /\ ctimeouts' = [ctimeouts EXCEPT ![r] = ctimeouts[r] + 1]
          /\ cpc' = [cpc EXCEPT ![r] = AfterPoll(FALSE)]
    /\ UNCHANGED <<runvars, czsocket, cgot, ccreated, coutcome, csocks>>

\* zmq_msg_recv(&msg_in, zsocket, 0): extra/ sets got_reply and breaks, src/
\* goes on to malloc; on -1 the loop test is next
ConcRecv(r) ==
    /\ cpc[r] = "recv"
    /\ ccalls' = ccalls \cup {Call(r, "recv", czsocket[r])}
    /\ \/ /\ cgot' = [cgot EXCEPT ![r] = IF IsExtra(fe) THEN TRUE ELSE cgot[r]]
          /\ cpc' = [cpc EXCEPT ![r] = AfterRecvOk(fe)]
       \/ /\ cpc' = [cpc EXCEPT ![r] = "loop"]
          /\ UNCHANGED cgot
    /\ UNCHANGED <<runvars, cretries, czsocket, ccreated, ctimeouts, coutcome,
                   csocks>>

\* src/zabbix: vpoller_result = malloc(msg_len + 1); on failure the message
\* and the socket are closed and SYSINFO_RET_FAIL is returned
ConcMalloc(r) ==
    /\ cpc[r] = "malloc"
    /\ \/ /\ cgot' = [cgot EXCEPT ![r] = TRUE]
          /\ cpc' = [cpc EXCEPT ![r] = "after"]
          /\ UNCHANGED <<coutcome, csocks, ccalls>>
       \/ /\ coutcome' = [coutcome EXCEPT ![r] = "Fatal"]
          /\ csocks' = csocks \ {czsocket[r]}
          /\ ccalls' = ccalls \cup {Call(r, "close", czsocket[r])}
          /\ cpc' = [cpc EXCEPT ![r] = "done"]
          /\ UNCHANGED cgot
    /\ UNCHANGED <<runvars, cretries, czsocket, ccreated, ctimeouts>>

\* zmq_close(zsocket) in the timeout branch
ConcCloseRetry(r) ==
    /\ cpc[r] = "close"
    /\ csocks' = csocks \ {czsocket[r]}
    /\ ccalls' = ccalls \cup {Call(r, "close", czsocket[r])}
    /\ cpc' = [cpc EXCEPT ![r] = "reopen"]
    /\ UNCHANGED <<runvars, cretries, czsocket, cgot, ccreated, ctimeouts,
                   coutcome>>

\* the replacement zmq_socket, zmq_connect, zmq_setsockopt
ConcReopen(r) ==
    /\ cpc[r] = "reopen"
    /\ \/ /\ czsocket' = StoreSocket(czsocket, r, <<r, ccreated[r] + 1>>)
          /\ ccreated' = [ccreated EXCEPT ![r] = ccreated[r] + 1]
          /\ csocks' = csocks \cup {<<r, ccreated[r] + 1>>}
          /\ cpc' = [cpc EXCEPT ![r] = "loop"]
          /\ UNCHANGED coutcome
       \/ /\ czsocket' = StoreSocket(czsocket, r, NoSock)
          /\ coutcome' = [coutcome EXCEPT ![r] = "Fatal"]
          /\ cpc' = [cpc EXCEPT ![r] = "done"]
          /\ UNCHANGED <<ccreated, csocks>>
    /\ UNCHANGED <<runvars, cretries, cgot, ctimeouts, ccalls>>

\* after the loop: without a reply extra/ closes message and socket and
\* returns SYSINFO_RET_FAIL, src/ returns it at once; with a reply both close
\* and return SYSINFO_RET_OK
ConcFinish(r) ==
    /\ cpc[r] = "after"
    /\ coutcome' = [coutcome EXCEPT ![r] = IF cgot[r] THEN "Delivered" ELSE "Exhausted"]
    /\ IF ~cgot[r] /\ fe = SrcZabbix
       THEN UNCHANGED <<csocks, ccalls>>
       ELSE /\ csocks' = csocks \ {czsocket[r]}
            /\ ccalls' = ccalls \cup {Call(r, "close", czsocket[r])}
    /\ cpc' = [cpc EXCEPT ![r] = "done"]
    /\ UNCHANGED <<runvars, cretries, czsocket, cgot, ccreated, ctimeouts>>

ConcNext ==
    \E r \in Runs :
        \/ ConcCreateSocket(r)
        \/ ConcLoopTest(r)
        \/ ConcSend(r)
        \/ ConcPoll(r)
        \/ ConcRecv(r)
        \/ ConcMalloc(r)
        \/ ConcCloseRetry(r)
        \/ ConcReopen(r)
        \/ ConcFinish(r)

ConcSpec == ConcInit /\ [][ConcNext]_vars

(* ------------------- reading the history of calls ---------------------- *)

Idx == 1..Len(ops)

Happened(o) == \E i \in Idx : ops[i].op = o

NumOps(o) == Cardinality({i \in Idx : ops[i].op = o})

Returned == pc = "done"

(* ------------------------------ C1 ------------------------------------- *)

\* C1: every run with a budget N >= 1 reaches one of the outcomes Delivered,
\* Exhausted or Fatal after finitely many steps, whatever the transport does.
\* Checked under FairSpec (the process keeps executing).  The code does not
\* satisfy it: when poll reports readable and zmq_msg_recv returns -1 the loop
\* goes round without charging the budget, as often as the receive fails.
C1_RunTerminates ==
    (N >= 1) => <>(outcome \in {"Delivered", "Exhausted", "Fatal"})

(* ------------------------------ C2 ------------------------------------- *)

\* C2: a session on which a request was sent and no reply was successfully
\* received is never the target of another send: between two sends on the
\* same session there is a successful receive on it.  The code does not
\* satisfy it: after a failed receive the next zmq_send goes to the same
\* socket.
C2_NoSecondSend ==
    \A i, j \in Idx :
        (i < j /\ ops[i].op = "send" /\ ops[j].op = "send" /\ ops[i].s = ops[j].s)
            => \E k \in (i + 1)..(j - 1) : ops[k] = Ev("recv_ok", ops[i].s)

(* ------------------------------ C3 ------------------------------------- *)

\* C3: after every poll that times out, the next call on any session is the
\* close of the session that was polled; that session is never used again;
\* and every later send goes to a session opened after that close.
C3_TimeoutDiscardsSession ==
    \A i \in Idx :
        ops[i].op = "poll_to" =>
            /\ i < Len(ops) => ops[i + 1] = Ev("close", ops[i].s)
            /\ \A j \in (i + 2)..Len(ops) : ops[j].s # ops[i].s
            /\ \A j \in (i + 1)..Len(ops) :
                  ops[j].op = "send" =>
                      \E k \in (i + 2)..(j - 1) : ops[k] = Ev("open", ops[j].s)

\* a timeout was followed by a retry that sent again
C3_Witness ==
    \E i, j \in Idx : i < j /\ ops[i].op = "poll_to" /\ ops[j].op = "send"

(* ------------------------------ C4 ------------------------------------- *)

\* the remote side never replied and every socket creation succeeded
NeverReplied == ~Happened("poll_in") /\ ~Happened("open_fail")

\* every send went to a session that had just been created and had not been
\* sent on before
SendsOnFreshSessions ==
    /\ \A j \in Idx : ops[j].op = "send" => (j > 1 /\ ops[j - 1] = Ev("open", ops[j].s))
    /\ \A i, j \in Idx :
          (ops[i].op = "send" /\ ops[j].op = "send" /\ i # j) => ops[i].s # ops[j].s

\* C4: with N >= 1, every socket creation succeeding and no reply ever, the
\* run makes exactly N sends, each on a different freshly created session,
\* and ends Exhausted (one send and no retry for N = 1).
C4_SilentServerExhausts ==
    (Returned /\ N >= 1 /\ NeverReplied) =>
        /\ sends = N
        /\ NumOps("send") = N
        /\ SendsOnFreshSessions
        /\ outcome = "Exhausted"

\* a run with a budget of at least two that timed out on every attempt
C4_Witness ==
    Returned /\ N >= 2 /\ NeverReplied /\ timeouts = N /\ outcome = "Exhausted"

(* ------------------------------ C5 ------------------------------------- *)

\* attempts timed out until one was answered: a receive succeeded, none
\* failed, every socket creation succeeded (and, in the src/ front-ends, so
\* did the allocation of the result buffer)
AnsweredOnAttempt(k) ==
    /\ Returned
    /\ N >= 1
    /\ Happened("recv_ok")
    /\ ~Happened("recv_err")
    /\ ~Happened("open_fail")
    /\ cause # "malloc"
    /\ timeouts = k - 1

C6_OpenedEqualsAttempts ==
    (Returned /\ N >= 1) => Opened = sends

(* ------------------------------ C7 ------------------------------------- *)

\* C7: in the two front-ends under extra/, at every terminal state the
\* number of sessions closed equals the number opened.
C7_ExtraNoLeak ==
    (Returned /\ IsExtra(fe)) => (Closed = Opened /\ OpenSocks(socks) = {})

\* an extra/ run that opened several sessions and returned
C7_Witness ==
    Returned /\ IsExtra(fe) /\ Opened >= 2 /\ outcome = "Delivered"

(* ------------------------------ C8 ------------------------------------- *)

\* C8: in the three front-ends under src/, at every terminal state the
\* number of sessions closed equals the number opened.  The code does not
\* satisfy it: the module returns "Did not receive response" without closing
\* the replacement socket (and the clients destroy the context with the
\* socket still open when malloc fails).
C8_SrcNoLeak ==
    (Returned /\ ~IsExtra(fe)) => Closed = Opened

(* ------------------------------ C9 ------------------------------------- *)

\* C9: in every reachable state of a run with a configured budget N (a
\* positive integer) the remaining budget is N minus the number of timed-out
\* polls so far, and lies between 0 and N.
C9_BudgetAccounting ==
    N >= 1 =>
        /\ retries = N - timeouts
        /\ 0 <= retries
        /\ retries <= N

\* a run that saw a failed receive, then a timeout, then a failed socket
\* creation
C9_Witness ==
    /\ Returned
    /\ cause = "socket"
    /\ timeouts >= 1
    /\ Happened("recv_err")

(* ------------------------------ C10 ------------------------------------ *)

Running == pc \notin {"done", "hung"}

\* C10: nothing is handed to the caller while the loop is running, the
\* result is written exactly once, and after it no send, poll or receive
\* happens.
C10_OneOutcome ==
    /\ Running => (reports = 0 /\ outcome = "none" /\ delivered = NoReply
                   /\ ~Happened("report"))
    /\ ~Running => (reports = 1 /\ outcome \in {"Delivered", "Exhausted", "Fatal"})
    /\ outcome # "Delivered" => delivered = NoReply
    /\ NumOps("report") <= 1
    /\ \A i, j \in Idx :
          (i < j /\ ops[i].op = "report") =>
              ops[j].op \notin {"send", "poll_in", "poll_to", "recv_ok", "recv_err"}

\* a run that retried and then reported its one outcome
C10_Witness ==
    ~Running /\ timeouts >= 1 /\ reports = 1 /\ Happened("report")

(* ------------------------------ C11 ------------------------------------ *)

\* C11: at most one session of a run is open at any time, and every
\* replacement session is opened after the close of the session before it.
C11_OneSessionAtATime ==
    /\ Cardinality(OpenSocks(socks)) <= 1
    /\ \A j \in Idx :
          (ops[j].op = "open" /\ ops[j].s > 1) =>
              \E c \in 1..(j - 1) : ops[c] = Ev("close", ops[j].s - 1)

\* a replacement session is the only one open, about to be sent on
C11_Witness ==
    pc = "send" /\ Opened >= 2 /\ OpenSocks(socks) = {Opened}

(* ------------------------------ C12 ------------------------------------ *)

SessionCalls == {"send", "poll_in", "poll_to", "recv_ok", "recv_err"}

\* the result a failed zmq_socket is reported with
SocketFailureRc(f) == IF IsModule(f) THEN "SYSINFO_RET_FAIL" ELSE "EX_PROTOCOL"

\* the first zmq_socket of the run returned NULL
InitialCreationFailed == ops # <<>> /\ ops[1].op = "open_fail"

\* C12: if the initial session creation fails the run ends at once with
\* outcome Fatal: no send, poll or receive, no second attempt to create a
\* session, and the budget untouched.
C12_InitialCreationFatal ==
    InitialCreationFailed =>
        /\ Returned
        /\ outcome = "Fatal" /\ cause = "socket"
        /\ rc = SocketFailureRc(fe)
        /\ \A i \in Idx : ops[i].op \notin SessionCalls \cup {"open"}
        /\ NumOps("open_fail") = 1
        /\ sends = 0 /\ sent = {}
        /\ timeouts = 0 /\ retries = N
        /\ Opened = 0

\* a run with budget left whose first socket could not be created
C12_Witness ==
    InitialCreationFailed /\ N >= 2 /\ outcome = "Fatal"

(* ------------------------------ C13 ------------------------------------ *)

\* the zmq_socket of a timeout branch returned NULL
ReplacementCreationFailed ==
    \E i \in Idx : i > 1 /\ ops[i].op = "open_fail"

\* C13: if creating a replacement session after a timeout fails the run ends
\* at once with outcome Fatal, reported as a failed initial creation is: no
\* further send, poll or receive and no second attempt to create a session.
C13_ReplacementCreationFatal ==
    \A i \in Idx :
        (i > 1 /\ ops[i].op = "open_fail") =>
            /\ Returned
            /\ outcome = "Fatal" /\ cause = "socket"
            /\ rc = SocketFailureRc(fe)
            /\ ops[i - 1].op = "close"
            /\ \A j \in (i + 1)..Len(ops) :
                  ops[j].op \notin SessionCalls \cup {"open", "open_fail"}
            /\ OpenSocks(socks) = {}

\* a replacement creation failed while budget was left
C13_Witness ==
    ReplacementCreationFailed /\ retries >= 1 /\ outcome = "Fatal"

(* ------------------------------ C14 ------------------------------------ *)

\* C14: when a timeout brings the remaining budget to zero the session is
\* closed and the run ends Exhausted without a replacement session being
\* created: a creation is attempted only while budget remains, and a run
\* whose N attempts all timed out ends Exhausted.  The code does not satisfy
\* it: the timeout branch calls zmq_socket() whatever retries is, and a NULL
\* from it at that point ends the run Fatal.
C14_NoReplacementAtZeroBudget ==
    N >= 1 =>
        /\ pc = "reopen" => retries > 0
        /\ (Returned /\ timeouts = N) => outcome = "Exhausted"

(* ------------------------------ C15 ------------------------------------ *)

Receives == {"recv_ok", "recv_err"}
Polls == {"poll_in", "poll_to"}

\* C15: on every session the calls come in the order open, send, poll, then
\* receive or close.  A send is made on a session that was opened before and
\* not closed since; a poll directly follows a send on the same session; a
\* receive directly follows a poll on the same session that reported it
\* readable, which itself followed a send on that session; a timed-out poll
\* is followed by the close of its session and never by a receive; and no
\* call is made on a session after its close.
C15_SessionCallOrder ==
    \A i \in Idx :
        /\ ops[i].op = "send" =>
              /\ \E o \in 1..(i - 1) : ops[o] = Ev("open", ops[i].s)
              /\ \A c \in 1..(i - 1) : ops[c] # Ev("close", ops[i].s)
        /\ ops[i].op \in Polls =>
              i > 1 /\ ops[i - 1] = Ev("send", ops[i].s)
        /\ ops[i].op \in Receives =>
              /\ i > 2
              /\ ops[i - 1] = Ev("poll_in", ops[i].s)
              /\ ops[i - 2] = Ev("send", ops[i].s)
        /\ (ops[i].op = "poll_to" /\ i < Len(ops)) =>
              ops[i + 1] = Ev("close", ops[i].s)
        /\ ops[i].op = "close" =>
              \A j \in (i + 1)..Len(ops) :
                  ops[j].op \in SessionCalls \cup {"close"} => ops[j].s # ops[i].s

\* a run that timed out on one session and received on the next
C15_Witness ==
    /\ Happened("poll_to")
    /\ \E i \in Idx : ops[i].op \in Receives /\ ops[i].s >= 2

(* ------------------------------ C16 ------------------------------------ *)

NumReceives == NumOps("recv_ok") + NumOps("recv_err")

\* C16: each attempt holds exactly one send and a whole run at most one
\* receive call, whatever the transport does: no session carries two sends
\* and the history holds at most one receive.  The code does not satisfy it:
\* after a receive that returned -1 the loop sends and receives again on the
\* same session.
C16_OneSendOneReceive ==
    /\ NumReceives <= 1
    /\ \A i, j \in Idx :
          (ops[i].op = "send" /\ ops[j].op = "send" /\ ops[i].s = ops[j].s)
              => i = j

(* ------------------------------ C17 ------------------------------------ *)

\* position of the last send in the history (0 if there is none)
LastSend ==
    LET S == {i \in Idx : ops[i].op = "send"}
    IN  IF S = {} THEN 0 ELSE CHOOSE i \in S : \A j \in S : j <= i

\* C17: the reply of a Delivered outcome was received on the session that
\* carried the run's most recent send, which is the newest session and was
\* still open when the receive was made; nothing is ever received on a
\* session older than the one of the latest send, so a reply to a request
\* sent on a discarded session is never taken for the current attempt.
\* (The history is read for the latest send only while it is complete.)
C17_NoCrossSessionReply ==
    /\ outcome = "Delivered" =>
          /\ delivered.from = Opened
          /\ Len(ops) < MaxOps =>
                LastSend > 0 /\ ops[LastSend].s = delivered.from
    /\ pc \in {"after", "malloc"} /\ msg_in.state = "recvd" =>
          msg_in.from = zsocket /\ zsocket = Opened /\ socks[zsocket].open
    /\ \A r \in Idx : ops[r].op \in Receives =>
          /\ \A j \in 1..r : ops[j].op = "send" => ops[j].s <= ops[r].s
          /\ \A c \in 1..r : ops[c] # Ev("close", ops[r].s)

\* a reply delivered from the third session after two timed-out ones
C17_Witness ==
    /\ outcome = "Delivered" /\ delivered.from = 3
    /\ timeouts = 2 /\ Closed = 3 /\ Len(ops) < MaxOps

(* ------------------------------ C18 ------------------------------------ *)

\* C18: the request payload is left unchanged: the buffer holds at every
\* moment the bytes built before the first session was opened, and every
\* send of the run, first attempt and retries alike, transmitted exactly
\* those bytes.
C18_PayloadUnchanged ==
    /\ msg_buf = built
    /\ sent \subseteq {built}
    /\ sends > 0 => sent = {built}

\* a run that has sent on the first session and on two replacements
C18_Witness ==
    /\ sends = 3 /\ timeouts >= 2
    /\ \E i \in Idx : ops[i] = Ev("send", 3)

(* ------------------------------ C19 ------------------------------------ *)

\* C19: reply byte-exactness: the bytes handed to the caller by a Delivered
\* outcome are exactly the received bytes, in order and with the received
\* length, for every reply (empty, with an embedded NUL, without any NUL).
\* The code does not satisfy it: the reply is handed over as a C string, cut
\* at the first NUL, and read past its end when it holds none.
C19_ReplyByteExact ==
    outcome = "Delivered" =>
        /\ delivered.bytes = msg_in.data
        /\ Len(delivered.bytes) = msg_len

(* ------------------------------ C20 ------------------------------------ *)

\* the calls of one timed-out attempt on session s and the creation of its
\* replacement
TimedOutAttempt(s) ==
    <<Ev("send", s), Ev("poll_to", s), Ev("close", s), Ev("open", s + 1)>>

RECURSIVE TimedOutAttempts(_, _)
TimedOutAttempts(s, n) ==
    IF n = 0 THEN <<>> ELSE TimedOutAttempt(s) \o TimedOutAttempts(s + 1, n - 1)

\* the calls after the loop of a run without a reply, session s being the
\* current one
ExhaustedTail(f, s) ==
    CASE f = ExtraZabbix -> <<Ev("close", s), Ev("report", 0)>>
      [] f = SrcZabbix   -> <<Ev("report", 0)>>
      [] OTHER           -> <<Ev("report", 0), Ev("close", s), Ev("ctx_destroy", 0)>>

\* the whole history of a run of front-end f with budget n whose every
\* attempt timed out
SilentOps(f, n) ==
    <<Ev("open", 1)>> \o TimedOutAttempts(1, n) \o ExhaustedTail(f, n + 1)

SilentRc(f) ==
    CASE IsModule(f)      -> "SYSINFO_RET_FAIL"
      [] f = SrcVmCclient -> "EX_OK"
      [] OTHER            -> "EX_UNAVAILABLE"

CreationsSucceeded == ~Happened("open_fail")

\* zmq_connect failed on every session of the run
ConnectFailedRun ==
    Opened >= 1 /\ \A i \in 1..Opened : ~socks[i].connected

\* every session was connected and no poll reported a reply
ConnectedSilentRun ==
    /\ Opened >= 1 /\ \A i \in 1..Opened : socks[i].connected
    /\ ~Happened("poll_in")

\* C20: a run in which connecting fails although the sockets were created
\* goes through the same steps and ends with the same outcome as a run that
\* connected and got no reply: both have the history SilentOps(fe, N) (send,
\* timed-out poll, decrement, close, reopen, N times), end Exhausted with the
\* same return code and the budget at zero; a failed connect never makes a
\* Fatal outcome.
C20_ConnectFailureLikeTimeout ==
    /\ (Returned /\ N >= 1 /\ CreationsSucceeded
            /\ (ConnectFailedRun \/ ConnectedSilentRun)) =>
          /\ ops = SilentOps(fe, N)
          /\ outcome = "Exhausted"
          /\ rc = SilentRc(fe)
          /\ retries = 0 /\ timeouts = N /\ sends = N
    /\ (ConnectFailedRun /\ outcome = "Fatal") => cause = "socket"
    /\ (N >= 1 /\ ConnectFailedRun /\ Running) =>
          ops = SubSeq(SilentOps(fe, N), 1, Len(ops))

\* a returned run of two or more attempts in which no connect succeeded
C20_Witness ==
    Returned /\ N >= 2 /\ CreationsSucceeded /\ ConnectFailedRun

(* ------------------------------ C21 ------------------------------------ *)

\* C21: every session that is ever closed, the initial one and every
\* replacement, after a reply and after a timeout, had its linger period
\* set to zero before the close (it is set when the session is made, before
\* any call on it), so no close waits for unsent data.
C21_ZeroLingerBeforeClose ==
    /\ \A i \in 1..Opened : socks[i].linger = 0
    /\ \A c \in Idx : ops[c].op = "close" =>
          /\ ops[c].s \in 1..Opened
          /\ socks[ops[c].s].linger = 0
          /\ \E o \in 1..(c - 1) : ops[o] = Ev("open", ops[c].s)

\* a run that closed one session after a timeout and the next after a reply
C21_Witness ==
    /\ outcome = "Delivered" /\ timeouts >= 1
    /\ Happened("recv_ok") /\ ~socks[1].open /\ ~socks[2].open

(* ------------------------------ C22 ------------------------------------ *)

\* C22: the retry budget is validated before anything is opened: a run
\* whose configured budget is <= 0 is rejected at the start, no session is
\* ever opened and nothing is sent.  The code does not satisfy it: the
\* command-line clients take -r through atol() unchecked and create context
\* and socket first; the loop test is the only place the budget is looked at.
C22_BudgetValidatedFirst ==
    N <= 0 =>
        /\ Opened = 0
        /\ ~Happened("open") /\ ~Happened("open_fail")
        /\ sends = 0
        /\ Returned => outcome \notin {"Exhausted", "Delivered"}

(* ------------------------------ C23 ------------------------------------ *)

\* the return code of a run that delivered a reply
DeliveredRc(f) == IF IsModule(f) THEN "SYSINFO_RET_OK" ELSE "EX_OK"

\* C23: in every front-end the result the caller sees differs between the
\* outcomes: a Delivered run returns the success code, an Exhausted or Fatal
\* run never does, and the exit status of an Exhausted client run differs
\* from that of a failed socket creation (the modules tell these two apart
\* by the result message).  The code does not satisfy it: vmpoller-cclient
\* leaves rc at EX_OK when no reply was received.
C23_DistinctResults ==
    (Returned /\ N >= 1) =>
        /\ outcome = "Delivered" => rc = DeliveredRc(fe)
        /\ outcome = "Exhausted" => rc # DeliveredRc(fe)
        /\ outcome = "Fatal" => rc # DeliveredRc(fe)
        /\ (outcome = "Exhausted" /\ ~IsModule(fe)) => rc # SocketFailureRc(fe)

(* ------------------------------ C24 ------------------------------------ *)

NumPolls == NumOps("poll_in") + NumOps("poll_to")

\* C24: a run with budget N calls poll at most N times, whatever the
\* transport does, so that it blocks for at most N per-attempt timeouts.
\* The code does not satisfy it: a readable poll followed by a failed
\* receive charges nothing, and the next round polls again.
C24_AtMostNPolls ==
    N >= 1 => NumPolls <= N

(* ------------------------------ C26 ------------------------------------ *)

\* C26: zbx_module_init returns ZBX_MODULE_OK only when the initialization
\* succeeded and ZBX_MODULE_FAIL when the transport context could not be
\* created, so zbx_module_vpoller never runs with a missing context.  The
\* code does not satisfy it: the result of zmq_ctx_new is not tested and
\* ZBX_MODULE_OK is returned always.
C26_InitReportsFailure ==
    IsModule(fe) =>
        /\ init_rc = "ZBX_MODULE_OK" => zcontext = "live"
        /\ (init_rc # "none" /\ zcontext = "null") => init_rc = "ZBX_MODULE_FAIL"
        /\ pc \notin {"init", "unloaded"} => zcontext = "live"

(* ------------------------------ C27 ------------------------------------ *)

\* C27: the reply bytes are read (printed or copied for the caller) only
\* while the received message is still open; no front-end reads them after
\* the message holding them was released.  The code does not satisfy it:
\* src/zabbix calls zmq_msg_close and then strdup()s the message data.
C27_ReadWhileMessageOpen ==
    \A a \in accesses : a.kind = "read" => a.state = "recvd"

(* ------------------------------ C28 ------------------------------------ *)

\* C28: every byte position a front-end writes (the terminator) or reads
\* (the reply as text) lies in memory it owns for that: positions
\* 0..msg_len-1 of the message data, or 0..msg_len of a block of msg_len+1
\* bytes it allocated and that holds the reply.  The code does not satisfy
\* it: src/ writes the terminator at position msg_len of the message data,
\* and extra/ reads on behind the data when the reply holds no NUL.
C28_AccessesInBounds ==
    \A a \in accesses :
        /\ a.pos >= 0
        /\ a.buf = "msg" => a.pos <= msg_len - 1
        /\ a.buf = "heap" => a.pos <= msg_len

(* ------------------------------ C29 ------------------------------------ *)

\* C29: in the command-line clients every exit path after zmq_ctx_new
\* destroys the context exactly once, and at that moment no session of the
\* context is open, so the teardown does not block.  The code does not
\* satisfy it: when malloc fails, the src/ clients close the message and
\* call zmq_ctx_destroy with the socket still open.
C29_ContextDestroyedCleanly ==
    ~IsModule(fe) =>
        /\ zcontext = "destroyed" => OpenSocks(socks) = {}
        /\ pc # "hung"
        /\ Returned => zcontext = "destroyed"
        /\ Len(ops) < MaxOps => NumOps("ctx_destroy") <= 1
        /\ (Returned /\ Len(ops) < MaxOps) => NumOps("ctx_destroy") = 1

(* ------------------------------ C30 ------------------------------------ *)

\* a zmq_msg_recv of this run succeeded (the message then names its socket)
ReceiveSucceeded == msg_in.from # 0

Ended == pc \in {"done", "hung"}

\* C30 as stated: a run reports Delivered if and only if one of its receive
\* calls succeeded.  This is violated: in the src/ front-ends a successful
\* receive is followed by malloc, and when that fails the run is reported as
\* an allocation failure.
C30_DeliveredIffReceived ==
    Ended => (outcome = "Delivered" <=> ReceiveSucceeded)

\* C30 (amended): a run that reports Delivered had a successful receive and
\* delivers the reply of that receive; a run with a successful receive
\* reports Delivered, or, in the src/ front-ends only, the failure of the
\* allocation that follows the receive; a run that reports Exhausted had no
\* successful receive; and no run reports Exhausted or a socket-creation
\* failure after a successful receive.
C30_OutcomeMatchesWire ==
    /\ outcome = "Delivered" =>
          /\ ReceiveSucceeded
          /\ delivered.from = msg_in.from
          /\ Len(ops) < MaxOps => ops[Len(ops) - (IF IsModule(fe) THEN 2 ELSE 3)].op = "recv_ok"
    /\ (Ended /\ ReceiveSucceeded) =>
          \/ outcome = "Delivered"
          \/ outcome = "Fatal" /\ cause = "malloc" /\ ~IsExtra(fe)
    /\ outcome = "Exhausted" => ~ReceiveSucceeded /\ ~Happened("recv_ok")
    /\ (outcome = "Fatal" /\ cause = "socket") => ~ReceiveSucceeded
    /\ Happened("recv_ok") => ReceiveSucceeded

\* a reply delivered on the second attempt, after one timeout
C30_Witness ==
    outcome = "Delivered" /\ msg_in.from = 2 /\ timeouts = 1 /\ Happened("recv_ok")

(* ------------------------------ C25 ------------------------------------ *)

\* the sessions an invocation has created
OwnSocks(r) == {<<r, k>> : k \in 1..ccreated[r]}

\* C25 (under ConcSpec): two concurrent invocations share no session and no
\* budget.  Every send, poll, receive and close of an invocation is on a
\* session it created itself, its current session is its own, and it has at
\* most one session open; its budget is charged by its own timeouts only;
\* and its outcome follows from its own attempts: Exhausted exactly when N
\* of its own polls timed out, with as many sessions created as C14 tells
\* for a single run, whatever the other invocation does.
C25_InvocationsIndependent ==
    /\ zcontext = "live" /\ retries = N
    /\ \A c \in ccalls : c.s \in OwnSocks(c.run)
    /\ \A r \in Runs :
          /\ czsocket[r] \in OwnSocks(r) \cup {NoSock}
          /\ Cardinality({s \in csocks : s[1] = r}) <= 1
          /\ cretries[r] = N - ctimeouts[r]
          /\ ccreated[r] <= ctimeouts[r] + 1
          /\ coutcome[r] = "Exhausted" => ctimeouts[r] = N /\ ~cgot[r]
          /\ coutcome[r] = "Delivered" =>
                /\ ctimeouts[r] < N
                /\ Call(r, "recv", czsocket[r]) \in ccalls
          /\ (cpc[r] = "done" /\ ctimeouts[r] = N)
                => coutcome[r] \in {"Exhausted", "Fatal"}

\* one invocation has used up its budget while the other, after fewer
\* timeouts, got its reply
C25_Witness ==
    /\ N >= 2
    /\ coutcome[1] = "Exhausted" /\ coutcome[2] = "Delivered"
    /\ ctimeouts[2] = 1

(* ------------------------------ C31 ------------------------------------ *)

\* C31 (under SeqSpec): a run of zbx_module_vpoller leaves the module's
\* configuration unchanged.  At every moment of every run, after any number
\* of timeouts and however the earlier runs ended, the configured retry
\* count, timeout and endpoint are the ones that were loaded; and a run
\* starts with the full configured budget.
C31_ConfigUnchanged ==
    /\ Settings(N, config) = cfg0
    /\ pc = "socket" => retries = cfg0.retries
    /\ retries = cfg0.retries - timeouts

\* a second run is sending with the full budget after a first run used up
\* all of its own
C31_Witness ==
    /\ earlier.runs = 1 /\ earlier.exhausted
    /\ N >= 2 /\ pc = "send" /\ retries = N

(* ------------------------------ C32 ------------------------------------ *)

\* C32 (under ReqSpec): a call rejected for its parameters never touches the
\* transport.  With a number of key parameters outside the accepted range
\* (a module) or a required option missing (a client) the run gets no
\* further than the check: it returns SYSINFO_RET_FAIL / EX_USAGE with one
\* message, and no context or session was created and nothing was sent.
\* Only such calls are rejected.
C32_RejectedBeforeTransport ==
    /\ ~Accepted(fe, request) =>
          /\ pc \in {"args", "rejected"}
          /\ Opened = 0 /\ zsocket = 0 /\ ops = <<>>
          /\ sends = 0 /\ sent = {}
          /\ ~IsModule(fe) => zcontext = "null"
          /\ pc = "rejected" =>
                rc = RejectRc(fe) /\ reports = 1 /\ outcome = "Rejected"
    /\ pc = "rejected" => ~Accepted(fe, request)
    /\ Accepted(fe, request) => rc # "EX_USAGE" /\ outcome # "Rejected"

\* extra/zabbix has turned down a call with eleven key parameters
C32_Witness ==
    /\ pc = "rejected" /\ fe = ExtraZabbix
    /\ request.nparam > PARAM_NUM /\ rc = "SYSINFO_RET_FAIL"

====
